---- MODULE Spec2Model ----
(***************************************************************************)
(* The notebook constructing_drive_time_based_service_areas.ipynb as a     *)
(* state machine.  The notebook is a sequential script against four remote *)
(* collaborators (session gateway, geocoder, travel-mode catalog, service  *)
(* area solver) and two map widgets.  The state is the notebook's name     *)
(* space (the Python names keep their spelling, and are rebound exactly    *)
(* where the cells rebind them), the graphics held by the two widgets, the *)
(* text printed so far, the request in flight and the position of the      *)
(* script.  Every remote call is two steps: the request goes out, then the *)
(* response (chosen by the remote service) comes back and the rest of the  *)
(* statement runs.                                                         *)
(*                                                                         *)
(* Timestamps are kept in milliseconds counted from local midnight of      *)
(* 10 June 2017 (the epoch value of that midnight is a constant offset     *)
(* that depends on the kernel's time zone and exceeds the integer range of *)
(* the model checker).                                                     *)
(***************************************************************************)
EXTENDS Integers, Sequences, FiniteSets, TLC

VARIABLES pc, error, inflight, solveLog, geocodeLog,
          my_gis, sd_geocode, f1, fset, map1, travel_modes, truck_mode,
          result, poly_feat_list, service_area_fset, fill_symbol,
          balboa_park, times, sa_results, SD_fset_list, map2,
          it, l, j, printed

vars == <<pc, error, inflight, solveLog, geocodeLog,
          my_gis, sd_geocode, f1, fset, map1, travel_modes, truck_mode,
          result, poly_feat_list, service_area_fset, fill_symbol,
          balboa_park, times, sa_results, SD_fset_list, map2,
          it, l, j, printed>>

(***************************************************************************)
(* Bounds of the remote services' answers.                                 *)
(***************************************************************************)
\* longest polygon list the solver returns to the single solve
MaxFeatures == 3
\* longest polygon list the solver returns to a time-of-day solve
MaxTodFeatures == 1
\* longest candidate list the geocoder returns
MaxCandidates == 2

(***************************************************************************)
(* Values of the notebook.                                                 *)
(***************************************************************************)
\* a name that has not been bound yet
Unbound == [unbound |-> TRUE]

NoError == [kind |-> "none", at |-> "none"]

\* a break list with a slip in the last threshold
default_breaks_slip == <<5, 10, 20>>

default_breaks == <<5, 10, 15>>

travel_direction == "esriNATravelDirectionFromFacility"

\* a table whose 10-minute entry repeats the 15-minute color
colors_repeated == [b \in {5, 10, 15} |->
             CASE b = 5  -> <<0, 128, 0, 90>>
               [] b = 10 -> <<255, 0, 0, 90>>
               [] b = 15 -> <<255, 0, 0, 90>>]

\* drive-time -> RGBA fill
colors == [b \in {5, 10, 15} |->
             CASE b = 5  -> <<0, 128, 0, 90>>
               [] b = 10 -> <<255, 255, 0, 90>>
               [] b = 15 -> <<255, 0, 0, 90>>]

initial_fill_symbol ==
    [type |-> "esriSFS", style |-> "esriSFSSolid", color |-> <<115, 76, 0, 255>>]

\* hours of the day of the time-of-day samples
sample_hours == <<6, 10, 14, 18, 22>>

\* labels with two entries exchanged
time_labels_exchanged == <<"6 am", "10 am", "6 pm", "2 pm", "10 pm">>

\* labels printed by the animation
time_labels == <<"6 am", "10 am", "2 pm", "6 pm", "10 pm">>

\* number of passes of the animation
loop == 3

MsPerHour == 3600000

\* datetime(2017, 6, 10, h).timestamp() * 1000, from local midnight
TimestampMs(h) == h * MsPerHour

timestamps == [k \in 1..Len(sample_hours) |-> TimestampMs(sample_hours[k])]

\* hour of the day of a timestamp
HourOf(ts) == ts \div MsPerHour

\* the 12-hour clock label of an hour of the day
Label12(h) ==
    LET h12 == IF h % 12 = 0 THEN 12 ELSE h % 12
    IN  ToString(h12) \o (IF h < 12 THEN " am" ELSE " pm")

\* Feature(geometry, attributes)
Feature(geometry, attributes) == [geometry |-> geometry, attributes |-> attributes]

\* FeatureSet(features, geometry_type=..., spatial_reference=...)
FeatureSet(features, geometry_type, spatial_reference) ==
    [features |-> features, geometry_type |-> geometry_type,
     spatial_reference |-> spatial_reference]

\* a conversion that reads the attributes of the first polygon every time
PolyFeatListStale(features) ==
    [n \in 1..Len(features) |->
        Feature(features[n].geometry, features[1].attributes)]

\* the list built by "for polygon_dict in ...: append(Feature(...))"
PolyFeatList(features) ==
    [n \in 1..Len(features) |->
        Feature(features[n].geometry, features[n].attributes)]

\* an insertion at the front of the list
ListInsertFront(list, x) == <<x>> \o list

\* list.append
ListAppend(list, x) == Append(list, x)

\* a lookup that falls back to a placeholder on an empty list
Subscript0OrDefault(list) ==
    [raised |-> FALSE,
     value  |-> IF list = <<>>
                THEN [name |-> "", address |-> "", score |-> 0,
                      location |-> [place |-> "", rank |-> 0]]
                ELSE list[1]]

\* list[0]: the first item, or an IndexError raised on an empty list
Subscript0(list) ==
    IF list = <<>> THEN [raised |-> TRUE] ELSE [raised |-> FALSE, value |-> list[1]]

(***************************************************************************)
(* The remote services: what they may answer.                              *)
(***************************************************************************)
\* supported travel modes of the service (names printed by the notebook)
ModeNames == <<"Walking Time", "Rural Driving Distance", "Driving Time",
               "Driving Distance", "Walking Distance", "Rural Driving Time",
               "Trucking Time", "Trucking Distance">>

ModeDescriptor(name) == [name |-> name]

\* catalogs the service may return: all modes, or one without "Driving Time"
Catalogs ==
    { [supportedTravelModes |-> [n \in 1..Len(ModeNames) |-> ModeDescriptor(ModeNames[n])]],
      [supportedTravelModes |-> <<ModeDescriptor("Walking Time")>>] }

\* [t for t in travel_modes['supportedTravelModes'] if t['name'] == name]
RECURSIVE FilterByName(_, _)
FilterByName(modes, name) ==
    IF modes = <<>> THEN <<>>
    ELSE (IF Head(modes).name = name THEN <<Head(modes)>> ELSE <<>>)
         \o FilterByName(Tail(modes), name)

\* the n-th ranked candidate of a geocoding query
Candidate(query, n) ==
    [address |-> query, score |-> 100 - n,
     location |-> [place |-> query, rank |-> n]]

\* candidate lists the geocoder may return, the empty one included
GeocodeResults(query) ==
    { [n \in 1..len |-> Candidate(query, n)] : len \in 0..MaxCandidates }

\* ToBreak values the solver may tag a polygon with: the requested breaks
\* and one that was not requested
ToBreakDomain == {5, 10, 15, 20}

PolygonSR == [wkid |-> 4326, latestWkid |-> 4326]

\* time the polygons of a request were computed for (0: no time of day given)
TimeTag(req) == IF "time_of_day" \in DOMAIN req THEN req.time_of_day ELSE 0

\* a polygon of the answer to req: the ring for break brk, n-th in the list
Polygon(req, brk, n) ==
    [geometry   |-> [rings |-> <<TimeTag(req), brk, n>>, spatialReference |-> PolygonSR],
     attributes |-> [FacilityID |-> 1, FromBreak |-> brk - 5, ToBreak |-> brk]]

\* sequences over S of length at most n that name no element twice
SeqsUpTo(S, n) ==
    { bs \in UNION { [1..len -> S] : len \in 0..n } :
        \A a, b \in DOMAIN bs : a # b => bs[a] # bs[b] }

\* polygon lists of the answers to req
FeatureLists(req) ==
    IF "time_of_day" \in DOMAIN req
    THEN { [n \in 1..len |-> Polygon(req, req.default_breaks[Len(req.default_breaks) + 1 - n], n)]
             : len \in 0..MaxTodFeatures }
    ELSE { [n \in 1..Len(bs) |-> Polygon(req, bs[n], n)] : bs \in SeqsUpTo(ToBreakDomain, MaxFeatures) }

SolvedResponse(features) ==
    [saPolygons |-> [geometryType |-> "esriGeometryPolygon",
                     spatialReference |-> PolygonSR,
                     features |-> features,
                     fieldAliases |-> "aliases"],
     messages |-> <<>>]

RejectionMessage == [type |-> 50, description |-> "parameters rejected"]

\* answers that report a rejection in the diagnostic messages: with an empty
\* polygon collection, or with no polygon collection at all
RejectedResponses ==
    { [saPolygons |-> [geometryType |-> "esriGeometryPolygon",
                       spatialReference |-> PolygonSR,
                       features |-> <<>>,
                       fieldAliases |-> "aliases"],
       messages |-> <<RejectionMessage>>],
      [messages |-> <<RejectionMessage>>] }

\* every answer the solver may give to req
SolverResponses(req) ==
    { SolvedResponse(fl) : fl \in FeatureLists(req) } \cup RejectedResponses

\* does the answer report a rejection
IsRejected(res) == res.messages # <<>>

(***************************************************************************)
(* Control.                                                                *)
(***************************************************************************)
Running(at) == pc = at /\ error = NoError

\* a statement raises: the notebook halts where it is
Raise(kind) == error' = [kind |-> kind, at |-> pc]

Init ==
    /\ pc = "auth"
    /\ error = NoError
    /\ inflight = <<>>
    /\ solveLog = <<>>
    /\ geocodeLog = <<>>
    /\ my_gis = Unbound
    /\ sd_geocode = Unbound
    /\ f1 = Unbound
    /\ fset = Unbound
    /\ map1 = Unbound
    /\ travel_modes = Unbound
    /\ truck_mode = Unbound
    /\ result = Unbound
    /\ poly_feat_list = <<>>
    /\ service_area_fset = Unbound
    /\ fill_symbol = Unbound
    /\ balboa_park = Unbound
    /\ times = <<>>
    /\ sa_results = <<>>
    /\ SD_fset_list = <<>>
    /\ map2 = Unbound
    /\ it = 0
    /\ l = 0
    /\ j = 0
    /\ printed = <<>>

(***************************************************************************)
(* Remote calls are blocking: the script sits at the call until the answer *)
(* is back.                                                                *)
(***************************************************************************)
\* a call that returns at once and leaves its request outstanding
NonBlocking(at) == at

\* position of the script while the call made at "at" is outstanding
Blocking(at) == at \o ":wait"

Call(at, req) ==
    /\ Running(at)
    /\ inflight' = Append(inflight, req)
    /\ pc' = Blocking(at)
    /\ UNCHANGED error

\* the answer to the call made at "at" is back
Answered(at) ==
    /\ Running(Blocking(at))
    /\ inflight # <<>>
    /\ inflight' = Tail(inflight)

\* the call made at "at" fails in the network: the call raises
NetworkFailure(at) ==
    /\ Answered(at)
    /\ Raise("ConnectionError")
    /\ UNCHANGED <<pc, solveLog, geocodeLog, my_gis, sd_geocode, f1, fset, map1, travel_modes,
                   truck_mode, result, poly_feat_list, service_area_fset,
                   fill_symbol, balboa_park, times, sa_results, SD_fset_list,
                   map2, it, l, j, printed>>

(***************************************************************************)
(* Connect to the GIS.                                                     *)
(***************************************************************************)
AuthCall ==
    /\ Call("auth", [service |-> "session", url |-> "https://www.arcgis.com",
                     user_name |-> "arcgis_python"])
    /\ UNCHANGED <<solveLog, geocodeLog, my_gis, sd_geocode, f1, fset, map1, travel_modes,
                   truck_mode, result, poly_feat_list, service_area_fset,
                   fill_symbol, balboa_park, times, sa_results, SD_fset_list,
                   map2, it, l, j, printed>>

AuthReturn ==
    /\ Answered("auth")
    /\ \E valid \in BOOLEAN :
          IF valid
          THEN /\ my_gis' = [session |-> "arcgis_python"]
               /\ pc' = "geocode_sd"
               /\ UNCHANGED error
          ELSE /\ Raise("AuthError")
               /\ UNCHANGED <<pc, my_gis>>
    /\ UNCHANGED <<solveLog, geocodeLog, sd_geocode, f1, fset, map1, travel_modes,
                   truck_mode, result, poly_feat_list, service_area_fset,
                   fill_symbol, balboa_park, times, sa_results, SD_fset_list,
                   map2, it, l, j, printed>>

(***************************************************************************)
(* Calculate service area from SD convention center.                       *)
(***************************************************************************)
GeocodeRequest(query) == [service |-> "geocode", query |-> query]

GeocodeSdCall ==
    /\ Call("geocode_sd", GeocodeRequest("San Diego Convention Center"))
    /\ UNCHANGED <<solveLog, geocodeLog, my_gis, sd_geocode, f1, fset, map1, travel_modes,
                   truck_mode, result, poly_feat_list, service_area_fset,
                   fill_symbol, balboa_park, times, sa_results, SD_fset_list,
                   map2, it, l, j, printed>>

\* sd_geocode = geocode(...)[0]
GeocodeSdReturn ==
    /\ Answered("geocode_sd")
    /\ \E candidates \in GeocodeResults(Head(inflight).query) :
          /\ geocodeLog' = Append(geocodeLog, [request |-> Head(inflight), miss |-> candidates = <<>>])
          /\ LET first == Subscript0(candidates)
             IN  IF first.raised
                 THEN /\ Raise("IndexError")
                      /\ UNCHANGED <<pc, sd_geocode>>
                 ELSE /\ sd_geocode' = first.value
                      /\ pc' = "build_fset"
                      /\ UNCHANGED error
    /\ UNCHANGED <<solveLog, my_gis, f1, fset, map1, travel_modes,
                   truck_mode, result, poly_feat_list, service_area_fset,
                   fill_symbol, balboa_park, times, sa_results, SD_fset_list,
                   map2, it, l, j, printed>>

\* f1 = Feature(geometry=...); fset = FeatureSet([f1], ...)
BuildFset ==
    /\ Running("build_fset")
    /\ f1' = Feature(sd_geocode.location, Unbound)
    /\ fset' = FeatureSet(<<f1'>>, "esriGeometryPoint", [latestWkid |-> 4326])
    /\ pc' = "map1_create"
    /\ UNCHANGED <<error, inflight, solveLog, geocodeLog, my_gis, sd_geocode, map1, travel_modes,
                   truck_mode, result, poly_feat_list, service_area_fset,
                   fill_symbol, balboa_park, times, sa_results, SD_fset_list,
                   map2, it, l, j, printed>>

\* a map widget with nothing drawn
NewMap(place) == [place |-> place, graphics |-> <<>>]

\* widget.draw(shape, symbol=..., popup=...): the widget renders the shape
\* with the symbol and popup as they are when the call is made
Draw(widget, shape, symbol, popup) ==
    [widget EXCEPT !.graphics =
        Append(@, [shape |-> shape, symbol |-> symbol, popup |-> popup])]

\* a clear that leaves the graphics in place
ClearGraphicsKeep(widget) == widget

\* widget.clear_graphics()
ClearGraphics(widget) == [widget EXCEPT !.graphics = <<>>]

\* no symbol / popup argument
NoArg == [default |-> TRUE]

Map1Create ==
    /\ Running("map1_create")
    /\ map1' = NewMap("San Diego, CA")
    /\ pc' = "map1_draw_fset"
    /\ UNCHANGED <<error, inflight, solveLog, geocodeLog, my_gis, sd_geocode, f1, fset, travel_modes,
                   truck_mode, result, poly_feat_list, service_area_fset,
                   fill_symbol, balboa_park, times, sa_results, SD_fset_list,
                   map2, it, l, j, printed>>

Map1DrawFset ==
    /\ Running("map1_draw_fset")
    /\ map1' = Draw(map1, fset, NoArg, NoArg)
    /\ pc' = "travel_modes"
    /\ UNCHANGED <<error, inflight, solveLog, geocodeLog, my_gis, sd_geocode, f1, fset, travel_modes,
                   truck_mode, result, poly_feat_list, service_area_fset,
                   fill_symbol, balboa_park, times, sa_results, SD_fset_list,
                   map2, it, l, j, printed>>

(***************************************************************************)
(* Compute the service area.                                               *)
(***************************************************************************)
TravelModesCall ==
    /\ Call("travel_modes", [service |-> "travel_modes"])
    /\ UNCHANGED <<solveLog, geocodeLog, my_gis, sd_geocode, f1, fset, map1, travel_modes,
                   truck_mode, result, poly_feat_list, service_area_fset,
                   fill_symbol, balboa_park, times, sa_results, SD_fset_list,
                   map2, it, l, j, printed>>

\* travel_modes = ...; truck_mode = [t for t in ... if t['name'] == 'Driving Time'][0]
TravelModesReturn ==
    /\ Answered("travel_modes")
    /\ \E catalog \in Catalogs :
          /\ travel_modes' = catalog
          /\ LET first == Subscript0(FilterByName(catalog.supportedTravelModes, "Driving Time"))
             IN  IF first.raised
                 THEN /\ Raise("IndexError")
                      /\ UNCHANGED <<pc, truck_mode>>
                 ELSE /\ truck_mode' = first.value
                      /\ pc' = "solve"
                      /\ UNCHANGED error
    /\ UNCHANGED <<solveLog, geocodeLog, my_gis, sd_geocode, f1, fset, map1,
                   result, poly_feat_list, service_area_fset,
                   fill_symbol, balboa_park, times, sa_results, SD_fset_list,
                   map2, it, l, j, printed>>

\* the arguments of the single solve
SingleSolveRequest ==
    [service |-> "solve", facilities |-> fset, default_breaks |-> default_breaks,
     travel_direction |-> travel_direction, travel_mode |-> truck_mode]

SolveCall ==
    /\ Call("solve", SingleSolveRequest)
    /\ UNCHANGED <<solveLog, geocodeLog, my_gis, sd_geocode, f1, fset, map1, travel_modes,
                   truck_mode, result, poly_feat_list, service_area_fset,
                   fill_symbol, balboa_park, times, sa_results, SD_fset_list,
                   map2, it, l, j, printed>>

\* result = sa_layer.solve_service_area(...)
SolveReturn ==
    /\ Answered("solve")
    /\ \E res \in SolverResponses(Head(inflight)) :
          /\ result' = res
          /\ solveLog' = Append(solveLog, [request |-> Head(inflight), response |-> res])
    /\ pc' = "inspect"
    /\ UNCHANGED <<error, geocodeLog, my_gis, sd_geocode, f1, fset, map1, travel_modes,
                   truck_mode, poly_feat_list, service_area_fset,
                   fill_symbol, balboa_park, times, sa_results, SD_fset_list,
                   map2, it, l, j, printed>>

\* result.keys(); result['saPolygons'].keys()
Inspect ==
    /\ Running("inspect")
    /\ IF "saPolygons" \in DOMAIN result
       THEN pc' = "convert" /\ UNCHANGED error
       ELSE Raise("KeyError") /\ UNCHANGED pc
    /\ UNCHANGED <<inflight, solveLog, geocodeLog, my_gis, sd_geocode, f1, fset, map1, travel_modes,
                   truck_mode, result, poly_feat_list, service_area_fset,
                   fill_symbol, balboa_park, times, sa_results, SD_fset_list,
                   map2, it, l, j, printed>>

\* f1 after the conversion loop: the last feature built, if any
LastFeature(old, features) ==
    IF features = <<>> THEN old ELSE features[Len(features)]

\* poly_feat_list = []; for polygon_dict in result['saPolygons']['features']: ...
Convert ==
    /\ Running("convert")
    /\ poly_feat_list' = PolyFeatList(result.saPolygons.features)
    /\ f1' = LastFeature(f1, poly_feat_list')
    /\ pc' = "make_fset"
    /\ UNCHANGED <<error, inflight, solveLog, geocodeLog, my_gis, sd_geocode, fset, map1, travel_modes,
                   truck_mode, result, service_area_fset,
                   fill_symbol, balboa_park, times, sa_results, SD_fset_list,
                   map2, it, l, j, printed>>

\* service_area_fset = FeatureSet(poly_feat_list, ...)
MakeFset ==
    /\ Running("make_fset")
    /\ service_area_fset' = FeatureSet(poly_feat_list,
                                       result.saPolygons.geometryType,
                                       result.saPolygons.spatialReference)
    /\ pc' = "symbols"
    /\ UNCHANGED <<error, inflight, solveLog, geocodeLog, my_gis, sd_geocode, f1, fset, map1, travel_modes,
                   truck_mode, result, poly_feat_list,
                   fill_symbol, balboa_park, times, sa_results, SD_fset_list,
                   map2, it, l, j, printed>>

(***************************************************************************)
(* Visualize the service area on the map.                                  *)
(***************************************************************************)
\* colors = {...}; fill_symbol = {...}
Symbols ==
    /\ Running("symbols")
    /\ fill_symbol' = initial_fill_symbol
    /\ it' = 0
    /\ pc' = "render"
    /\ UNCHANGED <<error, inflight, solveLog, geocodeLog, my_gis, sd_geocode, f1, fset, map1, travel_modes,
                   truck_mode, result, poly_feat_list, service_area_fset,
                   balboa_park, times, sa_results, SD_fset_list,
                   map2, l, j, printed>>

\* "{} minutes".format(ToBreak)
PopupFor(to_break) ==
    [title |-> "Service area", content |-> ToString(to_break) \o " minutes"]

\* one iteration of "for service_area in service_area_fset.features"
Render ==
    /\ Running("render")
    /\ it < Len(service_area_fset.features)
    /\ LET service_area == service_area_fset.features[it + 1]
           to_break == service_area.attributes.ToBreak
       IN  IF to_break \in DOMAIN colors
           THEN /\ fill_symbol' = [fill_symbol EXCEPT !.color = colors[to_break]]
                /\ map1' = Draw(map1, service_area.geometry, fill_symbol', PopupFor(to_break))
                /\ it' = it + 1
                /\ UNCHANGED error
           ELSE /\ Raise("KeyError")
                /\ UNCHANGED <<fill_symbol, map1, it>>
    /\ UNCHANGED <<pc, inflight, solveLog, geocodeLog, my_gis, sd_geocode, f1, fset, travel_modes,
                   truck_mode, result, poly_feat_list, service_area_fset,
                   balboa_park, times, sa_results, SD_fset_list,
                   map2, l, j, printed>>

RenderEnd ==
    /\ Running("render")
    /\ it = Len(service_area_fset.features)
    /\ pc' = "geocode_balboa"
    /\ UNCHANGED <<error, inflight, solveLog, geocodeLog, my_gis, sd_geocode, f1, fset, map1, travel_modes,
                   truck_mode, result, poly_feat_list, service_area_fset,
                   fill_symbol, balboa_park, times, sa_results, SD_fset_list,
                   map2, it, l, j, printed>>

(***************************************************************************)
(* How long of a drive for tonight's party?                                *)
(***************************************************************************)
GeocodeBalboaCall ==
    /\ Call("geocode_balboa", GeocodeRequest("Balboa park, San Diego, CA"))
    /\ UNCHANGED <<solveLog, geocodeLog, my_gis, sd_geocode, f1, fset, map1, travel_modes,
                   truck_mode, result, poly_feat_list, service_area_fset,
                   fill_symbol, balboa_park, times, sa_results, SD_fset_list,
                   map2, it, l, j, printed>>

\* balboa_park = geocode(...)[0]
GeocodeBalboaReturn ==
    /\ Answered("geocode_balboa")
    /\ \E candidates \in GeocodeResults(Head(inflight).query) :
          /\ geocodeLog' = Append(geocodeLog, [request |-> Head(inflight), miss |-> candidates = <<>>])
          /\ LET first == Subscript0(candidates)
             IN  IF first.raised
                 THEN /\ Raise("IndexError")
                      /\ UNCHANGED <<pc, balboa_park>>
                 ELSE /\ balboa_park' = first.value
                      /\ pc' = "draw_balboa"
                      /\ UNCHANGED error
    /\ UNCHANGED <<solveLog, my_gis, sd_geocode, f1, fset, map1, travel_modes,
                   truck_mode, result, poly_feat_list, service_area_fset,
                   fill_symbol, times, sa_results, SD_fset_list,
                   map2, it, l, j, printed>>

\* map1.draw(balboa_park['location'])
DrawBalboa ==
    /\ Running("draw_balboa")
    /\ map1' = Draw(map1, balboa_park.location, NoArg, NoArg)
    /\ pc' = "tod_times"
    /\ UNCHANGED <<error, inflight, solveLog, geocodeLog, my_gis, sd_geocode, f1, fset, travel_modes,
                   truck_mode, result, poly_feat_list, service_area_fset,
                   fill_symbol, balboa_park, times, sa_results, SD_fset_list,
                   map2, it, l, j, printed>>

(***************************************************************************)
(* Constructing service areas for different times of the day.              *)
(***************************************************************************)
\* times = [datetime(2017, 6, 10, h).timestamp() * 1000 for h in [...]]; sa_results = []
TodTimes ==
    /\ Running("tod_times")
    /\ times' = timestamps
    /\ sa_results' = <<>>
    /\ it' = 0
    /\ pc' = "tod_solve"
    /\ UNCHANGED <<error, inflight, solveLog, geocodeLog, my_gis, sd_geocode, f1, fset, map1, travel_modes,
                   truck_mode, result, poly_feat_list, service_area_fset,
                   fill_symbol, balboa_park, SD_fset_list,
                   map2, l, j, printed>>

\* the arguments of the solve for one time of the day
TodSolveRequest(daytime) ==
    [service |-> "solve", facilities |-> fset, default_breaks |-> default_breaks,
     travel_direction |-> travel_direction,
     time_of_day |-> daytime, time_of_day_is_utc |-> FALSE]

\* "for daytime in times": the call of one iteration
TodSolveCall ==
    /\ it < Len(times)
    /\ Call("tod_solve", TodSolveRequest(times[it + 1]))
    /\ UNCHANGED <<solveLog, geocodeLog, my_gis, sd_geocode, f1, fset, map1, travel_modes,
                   truck_mode, result, poly_feat_list, service_area_fset,
                   fill_symbol, balboa_park, times, sa_results, SD_fset_list,
                   map2, it, l, j, printed>>

\* result = ...; sa_results.append(result)
TodSolveReturn ==
    /\ Answered("tod_solve")
    /\ \E res \in SolverResponses(Head(inflight)) :
          /\ result' = res
          /\ sa_results' = ListAppend(sa_results, res)
          /\ solveLog' = Append(solveLog, [request |-> Head(inflight), response |-> res])
    /\ it' = it + 1
    /\ pc' = "tod_solve"
    /\ UNCHANGED <<error, geocodeLog, my_gis, sd_geocode, f1, fset, map1, travel_modes,
                   truck_mode, poly_feat_list, service_area_fset,
                   fill_symbol, balboa_park, times, SD_fset_list,
                   map2, l, j, printed>>

\* the solve loop is exhausted; SD_fset_list = []
TodSolveEnd ==
    /\ Running("tod_solve")
    /\ it = Len(times)
    /\ SD_fset_list' = <<>>
    /\ it' = 0
    /\ pc' = "tod_convert"
    /\ UNCHANGED <<error, inflight, solveLog, geocodeLog, my_gis, sd_geocode, f1, fset, map1, travel_modes,
                   truck_mode, result, poly_feat_list, service_area_fset,
                   fill_symbol, balboa_park, times, sa_results,
                   map2, l, j, printed>>

\* one iteration of "for result in sa_results"
TodConvert ==
    /\ Running("tod_convert")
    /\ it < Len(sa_results)
    /\ result' = sa_results[it + 1]
    /\ IF "saPolygons" \in DOMAIN result'
       THEN /\ poly_feat_list' = PolyFeatList(result'.saPolygons.features)
            /\ f1' = LastFeature(f1, poly_feat_list')
            /\ service_area_fset' = FeatureSet(poly_feat_list',
                                               result'.saPolygons.geometryType,
                                               result'.saPolygons.spatialReference)
            /\ SD_fset_list' = ListAppend(SD_fset_list, service_area_fset')
            /\ it' = it + 1
            /\ UNCHANGED error
       ELSE /\ poly_feat_list' = <<>>
            /\ Raise("KeyError")
            /\ UNCHANGED <<f1, service_area_fset, SD_fset_list, it>>
    /\ UNCHANGED <<pc, inflight, solveLog, geocodeLog, my_gis, sd_geocode, fset, map1, travel_modes,
                   truck_mode, fill_symbol, balboa_park, times, sa_results,
                   map2, l, j, printed>>

TodConvertEnd ==
    /\ Running("tod_convert")
    /\ it = Len(sa_results)
    /\ pc' = "map2_create"
    /\ UNCHANGED <<error, inflight, solveLog, geocodeLog, my_gis, sd_geocode, f1, fset, map1, travel_modes,
                   truck_mode, result, poly_feat_list, service_area_fset,
                   fill_symbol, balboa_park, times, sa_results, SD_fset_list,
                   map2, it, l, j, printed>>

(***************************************************************************)
(* Draw and animate the results on a map.                                  *)
(***************************************************************************)
Map2Create ==
    /\ Running("map2_create")
    /\ map2' = NewMap("San Diego, CA")
    /\ pc' = "anim_setup"
    /\ UNCHANGED <<error, inflight, solveLog, geocodeLog, my_gis, sd_geocode, f1, fset, map1, travel_modes,
                   truck_mode, result, poly_feat_list, service_area_fset,
                   fill_symbol, balboa_park, times, sa_results, SD_fset_list,
                   it, l, j, printed>>

\* map2.clear_graphics(); times = [labels]; loop = 3
\* (l = -1: range(loop) has not produced a value yet)
AnimSetup ==
    /\ Running("anim_setup")
    /\ map2' = ClearGraphics(map2)
    /\ times' = time_labels
    /\ l' = -1
    /\ pc' = "anim_pass"
    /\ UNCHANGED <<error, inflight, solveLog, geocodeLog, my_gis, sd_geocode, f1, fset, map1, travel_modes,
                   truck_mode, result, poly_feat_list, service_area_fset,
                   fill_symbol, balboa_park, sa_results, SD_fset_list,
                   it, j, printed>>

\* "for l in range(loop)": map2.clear_graphics(); j = 0
AnimPass ==
    /\ Running("anim_pass")
    /\ l + 1 < loop
    /\ l' = l + 1
    /\ map2' = ClearGraphics(map2)
    /\ j' = 0
    /\ it' = 0
    /\ pc' = "anim_draw"
    /\ UNCHANGED <<error, inflight, solveLog, geocodeLog, my_gis, sd_geocode, f1, fset, map1, travel_modes,
                   truck_mode, result, poly_feat_list, service_area_fset,
                   fill_symbol, balboa_park, times, sa_results, SD_fset_list,
                   printed>>

\* one iteration of "for fset in SD_fset_list": print(times[j]); map2.draw(fset); j += 1
AnimDraw ==
    /\ Running("anim_draw")
    /\ it < Len(SD_fset_list)
    /\ fset' = SD_fset_list[it + 1]
    /\ IF j < Len(times)
       THEN /\ printed' = Append(printed, times[j + 1])
            /\ map2' = Draw(map2, fset', NoArg, NoArg)
            /\ j' = j + 1
            /\ it' = it + 1
            /\ UNCHANGED error
       ELSE /\ Raise("IndexError")
            /\ UNCHANGED <<printed, map2, j, it>>
    /\ UNCHANGED <<pc, inflight, solveLog, geocodeLog, my_gis, sd_geocode, f1, map1, travel_modes,
                   truck_mode, result, poly_feat_list, service_area_fset,
                   fill_symbol, balboa_park, times, sa_results, SD_fset_list, l>>

\* the inner loop is exhausted
AnimDrawEnd ==
    /\ Running("anim_draw")
    /\ it = Len(SD_fset_list)
    /\ pc' = "anim_pass"
    /\ UNCHANGED <<error, inflight, solveLog, geocodeLog, my_gis, sd_geocode, f1, fset, map1, travel_modes,
                   truck_mode, result, poly_feat_list, service_area_fset,
                   fill_symbol, balboa_park, times, sa_results, SD_fset_list,
                   map2, it, l, j, printed>>

\* the outer loop is exhausted: the notebook has run to its end
AnimEnd ==
    /\ Running("anim_pass")
    /\ l + 1 = loop
    /\ pc' = "done"
    /\ UNCHANGED <<error, inflight, solveLog, geocodeLog, my_gis, sd_geocode, f1, fset, map1, travel_modes,
                   truck_mode, result, poly_feat_list, service_area_fset,
                   fill_symbol, balboa_park, times, sa_results, SD_fset_list,
                   map2, it, l, j, printed>>

\* positions of the remote calls
RemoteSteps == {"auth", "geocode_sd", "travel_modes", "solve", "geocode_balboa", "tod_solve"}

\* any remote call may fail in the network
NetworkFailureAny == \E at \in RemoteSteps : NetworkFailure(at)

Next ==
    \/ AuthCall \/ AuthReturn
    \/ GeocodeSdCall \/ GeocodeSdReturn
    \/ BuildFset \/ Map1Create \/ Map1DrawFset
    \/ TravelModesCall \/ TravelModesReturn
    \/ SolveCall \/ SolveReturn
    \/ Inspect \/ Convert \/ MakeFset
    \/ Symbols \/ Render \/ RenderEnd
    \/ GeocodeBalboaCall \/ GeocodeBalboaReturn \/ DrawBalboa
    \/ TodTimes \/ TodSolveCall \/ TodSolveReturn \/ TodSolveEnd
    \/ TodConvert \/ TodConvertEnd
    \/ Map2Create \/ AnimSetup \/ AnimPass \/ AnimDraw \/ AnimDrawEnd \/ AnimEnd
    \/ NetworkFailureAny

Spec == Init /\ [][Next]_vars

(***************************************************************************)
(* Vocabulary of the properties.                                           *)
(***************************************************************************)
\* the positions of the script, in the order the cells run
StepOrder ==
    <<"auth", "auth:wait", "geocode_sd", "geocode_sd:wait", "build_fset",
      "map1_create", "map1_draw_fset", "travel_modes", "travel_modes:wait",
      "solve", "solve:wait", "inspect", "convert", "make_fset", "symbols",
      "render", "geocode_balboa", "geocode_balboa:wait", "draw_balboa",
      "tod_times", "tod_solve", "tod_solve:wait", "tod_convert",
      "map2_create", "anim_setup", "anim_pass", "anim_draw", "done">>

Pos(p) == CHOOSE n \in 1..Len(StepOrder) : StepOrder[n] = p

\* number of time-of-day samples
K == Len(sample_hours)

\* the answer to the single solve (the first solve of the notebook)
SingleResponse == solveLog[1].response

\* the polygons drawn on the first map by the rendering loop
Rendered == SelectSeq(map1.graphics, LAMBDA g : g.popup # NoArg)

\* the table of the fill colors, as documented
ExpectedFill(b) ==
    CASE b = 5  -> <<0, 128, 0, 90>>
      [] b = 10 -> <<255, 255, 0, 90>>
      [] b = 15 -> <<255, 0, 0, 90>>

\* index of the first polygon whose ToBreak is no key of the table
\* (one past the end when every ToBreak is a key)
FirstBadKey(feats) ==
    LET bad == { n \in 1..Len(feats) : feats[n].attributes.ToBreak \notin {5, 10, 15} }
    IN  IF bad = {} THEN Len(feats) + 1
        ELSE CHOOSE n \in bad : \A m \in bad : n <= m

\* fs is the pass-through image of the answer res
PassThrough(fs, res) ==
    /\ Len(fs.features) = Len(res.saPolygons.features)
    /\ \A n \in 1..Len(fs.features) :
          /\ fs.features[n].geometry = res.saPolygons.features[n].geometry
          /\ fs.features[n].attributes = res.saPolygons.features[n].attributes
    /\ fs.geometry_type = res.saPolygons.geometryType
    /\ fs.spatial_reference = res.saPolygons.spatialReference

\* C1: a response with N polygon features converts to a feature collection
\* with exactly N features, the i-th carrying the geometry and attributes of
\* the i-th response feature, and the geometry type and spatial reference of
\* the response; in the single-solve form and in the per-result form.
ThmC1 ==
    /\ (service_area_fset # Unbound /\ SD_fset_list = <<>>)
          => PassThrough(service_area_fset, SingleResponse)
    /\ \A n \in 1..Len(SD_fset_list) : PassThrough(SD_fset_list[n], sa_results[n])

WitC1 ==
    /\ pc = "done"
    /\ Len(Rendered) = 3
    /\ \E n, m \in 1..Len(SD_fset_list) :
          /\ Len(SD_fset_list[n].features) = 1
          /\ Len(SD_fset_list[m].features) = 0

\* C2: every polygon drawn by the rendering loop got the fill color of the
\* fixed table for its ToBreak, although one symbol record is shared; at the
\* first polygon whose ToBreak is no key the loop raises a KeyError and
\* neither that polygon nor a later one is drawn.
ThmC2 ==
    (map1 # Unbound /\ solveLog # <<>> /\ "saPolygons" \in DOMAIN SingleResponse) =>
        LET feats == SingleResponse.saPolygons.features
            bad   == FirstBadKey(feats)
        IN  /\ Len(Rendered) < bad
            /\ \A n \in 1..Len(Rendered) :
                  /\ Rendered[n].shape = feats[n].geometry
                  /\ Rendered[n].symbol.color = ExpectedFill(feats[n].attributes.ToBreak)
            /\ (bad <= Len(feats)) =>
                  /\ Pos(pc) <= Pos("render")
                  /\ (pc = "render" /\ error # NoError) =>
                        /\ error.kind = "KeyError"
                        /\ it = bad - 1
                        /\ Len(Rendered) = bad - 1
            /\ (bad > Len(feats)) => ~(error.kind = "KeyError" /\ error.at = "render")
            /\ (Pos(pc) > Pos("render")) => Len(Rendered) = Len(feats)

WitC2 ==
    /\ pc = "render"
    /\ error.kind = "KeyError"
    /\ Len(Rendered) = 2
    /\ Rendered[1].symbol.color # Rendered[2].symbol.color

\* C3: the solve loop appends one result per sample in sample order, the
\* conversion loop yields one feature collection per result in the same
\* order, and every pass of the animation draws those K collections in
\* that order.
ThmC3 ==
    /\ Len(sa_results) <= K
    /\ \A n \in 1..Len(sa_results) :
          /\ Len(solveLog) >= n + 1
          /\ solveLog[n + 1].request.time_of_day = TimestampMs(sample_hours[n])
          /\ solveLog[n + 1].response = sa_results[n]
    /\ (Pos(pc) >= Pos("tod_convert")) => (Len(sa_results) = K /\ Len(solveLog) = K + 1)
    /\ Len(SD_fset_list) <= Len(sa_results)
    /\ \A n \in 1..Len(SD_fset_list) :
          /\ Len(SD_fset_list[n].features) = Len(sa_results[n].saPolygons.features)
          /\ \A m \in 1..Len(SD_fset_list[n].features) :
                SD_fset_list[n].features[m].geometry
                    = sa_results[n].saPolygons.features[m].geometry
    /\ (Pos(pc) >= Pos("map2_create")) => Len(SD_fset_list) = K
    /\ (map2 # Unbound) =>
          /\ Len(map2.graphics) <= K
          /\ \A n \in 1..Len(map2.graphics) : map2.graphics[n].shape = SD_fset_list[n]
    /\ (pc = "done" \/ (pc = "anim_pass" /\ l >= 0)) => Len(map2.graphics) = K

WitC3 ==
    /\ pc = "done"
    /\ \A a, b \in 1..Len(sa_results) : a # b => sa_results[a] # sa_results[b]

\* C4: an empty candidate list for the facility or for the destination halts
\* the notebook at that lookup with a raised error: no facility feature is
\* built from it, no solve request follows it and nothing is drawn from it.
ThmC4 ==
    /\ (Len(geocodeLog) >= 1 /\ geocodeLog[1].miss) =>
          /\ error = [kind |-> "IndexError", at |-> "geocode_sd:wait"]
          /\ sd_geocode = Unbound /\ f1 = Unbound /\ fset = Unbound
          /\ map1 = Unbound /\ map2 = Unbound
          /\ solveLog = <<>> /\ inflight = <<>>
    /\ (Len(geocodeLog) >= 2 /\ geocodeLog[2].miss) =>
          /\ error = [kind |-> "IndexError", at |-> "geocode_balboa:wait"]
          /\ balboa_park = Unbound
          /\ Len(map1.graphics) = 1 + Len(Rendered)
          /\ map2 = Unbound
          /\ Len(solveLog) = 1 /\ sa_results = <<>> /\ inflight = <<>>

WitC4 ==
    /\ Len(geocodeLog) = 1
    /\ geocodeLog[1].miss
    /\ geocodeLog[1].request.query = "San Diego Convention Center"

\* the answer holds exactly one polygon for every facility and break of the request
OnePerCombination(req, res) ==
    /\ "saPolygons" \in DOMAIN res
    /\ LET feats == res.saPolygons.features
           nfac  == Len(req.facilities.features)
       IN  /\ Len(feats) = nfac * Len(req.default_breaks)
           /\ \A k \in 1..Len(req.default_breaks) :
                 Cardinality({ n \in 1..Len(feats) :
                                 feats[n].attributes.ToBreak = req.default_breaks[k] }) = nfac

\* C5: when the solver answers the single solve with one polygon per
\* (facility, break), the request was for breaks [5,10,15], one facility,
\* from-facility; the answer has 3 polygons tagged {5,10,15}; and the
\* rendering loop makes exactly 3 polygon draws, one per break, with no
\* color lookup error.
ThmC5 ==
    (solveLog # <<>> /\ OnePerCombination(solveLog[1].request, SingleResponse)) =>
        LET req   == solveLog[1].request
            feats == SingleResponse.saPolygons.features
        IN  /\ req.default_breaks = <<5, 10, 15>>
            /\ Len(req.facilities.features) = 1
            /\ req.travel_direction = "esriNATravelDirectionFromFacility"
            /\ Len(feats) = 3
            /\ { feats[n].attributes.ToBreak : n \in 1..Len(feats) } = {5, 10, 15}
            /\ ~(error.kind = "KeyError" /\ error.at \in {"inspect", "render"})
            /\ Len(Rendered) <= 3
            /\ (Pos(pc) > Pos("render")) =>
                  /\ Len(Rendered) = 3
                  /\ { Rendered[n].popup.content : n \in 1..3 }
                        = {"5 minutes", "10 minutes", "15 minutes"}

WitC5 ==
    /\ pc = "geocode_balboa"
    /\ error = NoError
    /\ OnePerCombination(solveLog[1].request, SingleResponse)

\* has the first use of the answer of the n-th solve not run yet
FirstUsePending(n) ==
    IF n = 1 THEN pc = "inspect"
    ELSE \/ pc \in {"tod_solve", "tod_solve:wait"}
         \/ (pc = "tod_convert" /\ it < n - 1)

\* C6: every failure of an external step halts the notebook with a raised
\* error at the failing step or at the first use of its result; in
\* particular an answer of the solver that reports a rejection in its
\* messages is never carried past its first use.
CexC6 ==
    /\ (error.kind \in {"AuthError", "ConnectionError", "IndexError"}) => inflight = <<>>
    /\ (error.kind = "AuthError") => (my_gis = Unbound /\ geocodeLog = <<>>)
    /\ \A n \in 1..Len(solveLog) :
          IsRejected(solveLog[n].response) => (FirstUsePending(n) \/ error # NoError)

\* C7: at most one request is outstanding; the request for sample k is
\* outstanding only when the answers for samples 1..k-1 are in the result
\* list; nothing is drawn on the second map before all K answers are in.
ThmC7 ==
    /\ Len(inflight) <= 1
    /\ \A k \in 1..K :
          (/\ inflight # <<>>
           /\ "time_of_day" \in DOMAIN Head(inflight)
           /\ Head(inflight).time_of_day = TimestampMs(sample_hours[k]))
          => (Len(sa_results) = k - 1 /\ Len(solveLog) = k)
    /\ (map2 # Unbound /\ map2.graphics # <<>>) =>
          (Len(sa_results) = K /\ Len(solveLog) = K + 1 /\ inflight = <<>>)

WitC7 ==
    /\ inflight # <<>>
    /\ "time_of_day" \in DOMAIN Head(inflight)
    /\ Head(inflight).time_of_day = TimestampMs(sample_hours[3])
    /\ Len(sa_results) = 2

\* C8: every time-of-day request carries the facilities, the breaks, the
\* travel direction and the travel mode descriptor of the single solve, and
\* differs from it only by time_of_day and time_of_day_is_utc.
CexC8 ==
    \A n \in 2..Len(solveLog) :
        LET q == solveLog[n].request
            s == solveLog[1].request
        IN  /\ q.facilities = s.facilities
            /\ q.default_breaks = s.default_breaks
            /\ q.travel_direction = s.travel_direction
            /\ "travel_mode" \in DOMAIN q
            /\ q.travel_mode = s.travel_mode
            /\ DOMAIN q = DOMAIN s \cup {"time_of_day", "time_of_day_is_utc"}

\* the graphics of the second map during and after a pass
InvC9 ==
    (map2 # Unbound) =>
        /\ (pc = "anim_draw") =>
              /\ j = it /\ j <= K
              /\ Len(map2.graphics) = j
              /\ \A n \in 1..j : map2.graphics[n].shape = SD_fset_list[n]
        /\ (pc = "done" \/ (pc = "anim_pass" /\ l >= 0)) =>
              /\ Len(map2.graphics) = K
              /\ \A n \in 1..K : map2.graphics[n].shape = SD_fset_list[n]

\* the steps that change the second map
StepC9 ==
    (map2 # Unbound /\ map2' # map2) =>
        \/ /\ pc \in {"anim_setup", "anim_pass"}
           /\ map2'.graphics = <<>>
           /\ (pc = "anim_pass") => (pc' = "anim_draw" /\ l' = l + 1 /\ l' \in 0..2)
        \/ /\ pc = "anim_draw" /\ pc' = "anim_draw"
           /\ Len(map2'.graphics) = Len(map2.graphics) + 1
           /\ \A n \in 1..Len(map2.graphics) : map2'.graphics[n] = map2.graphics[n]

\* C9: the second map is cleared at the start of each of the 3 passes and
\* never during a pass; after the j-th draw of a pass it holds exactly the
\* first j polygon sets in sample order; at the end it holds all K sets.
ThmC9 == []InvC9 /\ [][StepC9]_vars

WitC9 ==
    /\ pc = "anim_draw"
    /\ l = 2
    /\ j = 3
    /\ Len(map2.graphics) = 3

\* C10: in every pass the label printed before the j-th draw is the 12-hour
\* label of the sample whose answer became the j-th drawn set, and the
\* label index never passes the end of the label list.
ThmC10 ==
    /\ Len(SD_fset_list) <= Len(time_labels)
    /\ (Pos(pc) >= Pos("anim_pass")) => j <= Len(times)
    /\ ~(error.kind = "IndexError" /\ error.at = "anim_draw")
    /\ \A n \in 1..Len(printed) :
          LET jj == ((n - 1) % K) + 1
          IN  /\ printed[n] = Label12(HourOf(solveLog[jj + 1].request.time_of_day))
              /\ PassThrough(SD_fset_list[jj], solveLog[jj + 1].response)
    /\ (pc = "anim_draw") =>
          /\ Len(printed) = l * K + j
          /\ Len(map2.graphics) = j
          /\ \A n \in 1..j : map2.graphics[n].shape = SD_fset_list[n]

WitC10 ==
    /\ pc = "done"
    /\ Len(printed) = 15
    /\ printed[15] = "10 pm"

====
